---- MODULE Spec2Model ----
(***************************************************************************)
(* A model of import.py, the driver that merges the Johns Hopkins daily    *)
(* case reports with c19map.org's population and intervention sheets into  *)
(* one Place per region.                                                   *)
(*                                                                         *)
(* Python's None is the empty tuple, and a value that may be None is a     *)
(* one-element tuple when present.  A place key is a triple of strings.    *)
(* Dates are numbered from args.start: date 1 is the first day of the      *)
(* range.  A dict is a function; where the order of a dict matters the     *)
(* order is taken from the rows that filled it.                            *)
(***************************************************************************)
EXTENDS Integers, Sequences, FiniteSets, TLC

\* Bounds of the model.
NumDates == 3
MaxCount == 2
MaxDeaths == 15

None == <<>>
Some(v) == <<v>>

Dates == 1..NumDates
Levels == 0..MaxCount

\* The two dated fixes, as positions in the date range (the range is shortened,
\* each fix date and its eve stay inside it, the misattribution first).
MisrecordedDate == 2
LateReportingDate == 3

RECURSIVE SumSeq(_)
SumSeq(s) == IF s = <<>> THEN 0 ELSE Head(s) + SumSeq(Tail(s))

RECURSIVE Concat(_)
Concat(ss) == IF ss = <<>> THEN <<>> ELSE Head(ss) \o Concat(Tail(ss))

Range(s) == {s[i] : i \in 1..Len(s)}

(***************************************************************************)
(* util.time_series.TimeSeries and util.place.Place.                       *)
(***************************************************************************)
Zeros == [d \in Dates |-> 0]

SeriesAdd(a, b) == [d \in Dates |-> a[d] + b[d]]

InRange(d) == d \in Dates

\* Place(dates): no key, no population, no coordinates, no interventions,
\* three zero series over the date range.
NewPlace ==
    [key |-> None, population |-> None, latitude |-> None, longitude |-> None,
     interventions |-> None, confirmed |-> Zeros, deaths |-> Zeros,
     recovered |-> Zeros]

\* Place.update(metric, date, value) on one series: a missing value leaves the
\* cell as it was.
Update(series, date, value) ==
    IF value = None THEN series ELSE [series EXCEPT ![date] = value[1]]

(***************************************************************************)
(* util.recon.PlaceRecon: the rule set and canonicalize.                   *)
(***************************************************************************)
place_renames ==
    (<<"US", "California", "">> :> <<"United States", "California", "">>)
    @@ (<<"US", "California", "Los Angeles">>
            :> <<"United States", "California", "Los Angeles">>)
    @@ (<<"US", "California", "Orange">>
            :> <<"United States", "California", "Orange">>)
    @@ (<<"US", "Los Angeles, CA", "">>
            :> <<"United States", "California", "Los Angeles">>)
    @@ (<<"Mainland China", "Hubei", "">> :> <<"China", "Hubei", "">>)
    @@ (<<"Czechia", "", "">> :> <<"Czech Republic", "", "">>)

place_drops ==
    {<<"Cruise Ship", "Diamond Princess", "">>, <<"Others", "", "">>}

recognized_countries ==
    {"China", "France", "French Polynesia", "Germany", "Italy", "Spain",
     "United States", "Canada", "Czech Republic"}

\* canonicalize's result.
Canonicalize(k) ==
    IF k \in DOMAIN place_renames THEN place_renames[k]
    ELSE IF k \in place_drops THEN None
    ELSE k

\* canonicalize's two side effects: the rule it used, the country it did not
\* recognize.
UsedBy(k) == IF k \in DOMAIN place_renames THEN {k} ELSE {}

UnrecognizedBy(k) ==
    IF Canonicalize(k) # None /\ Canonicalize(k)[1] \notin recognized_countries
    THEN {Canonicalize(k)[1]} ELSE {}

(***************************************************************************)
(* Python's sorted() on place keys: tuples compare field by field, strings *)
(* by code point.  PlaceOrder lists every key of the model in that order;  *)
(* None does not compare with a tuple.                                     *)
(***************************************************************************)
PlaceOrder ==
    << <<"Atlantis", "", "">>,
       <<"China", "Hubei", "">>,
       <<"France", "", "">>,
       <<"French Polynesia", "", "">>,
       <<"Germany", "", "">>,
       <<"Germany", "Bavaria", "">>,
       <<"Germany", "Berlin", "">>,
       <<"Italy", "", "">>,
       <<"Lemuria", "", "">>,
       <<"Narnia", "", "">>,
       <<"Spain", "", "">>,
       <<"United States", "California", "">>,
       <<"United States", "California", "Los Angeles">>,
       <<"United States", "California", "Orange">> >>

Sorted(S) == SelectSeq(PlaceOrder, LAMBDA k : k \in S)

\* sorted() raises TypeError when it has to compare None with a tuple.
SortFails(S) == None \in S /\ Cardinality(S) > 1

CountryOrder ==
    <<"Atlantis", "China", "France", "French Polynesia", "Germany", "Italy",
      "Lemuria", "Narnia", "Spain", "United States">>

(***************************************************************************)
(* The inputs.  A daily report is a sequence of keyed rows; the feed       *)
(* changed its column names after the first day (no Admin2, no             *)
(* coordinates and "Province/State" before; no Recovered column after).    *)
(* Every source of rows reports at a level n: it is absent at level 0 and  *)
(* at level n reports n + t confirmed and (n - 1) * t deaths on date t.    *)
(***************************************************************************)
OldRow(country, province, n, t) ==
    ("Country/Region" :> country) @@ ("Province/State" :> province)
    @@ ("Confirmed" :> n + t) @@ ("Deaths" :> (n - 1) * t)
    @@ ("Recovered" :> n)

NewRow(country, province, district, n, t) ==
    ("Country_Region" :> country) @@ ("Province_State" :> province)
    @@ ("Admin2" :> district) @@ ("Lat" :> "34.0") @@ ("Long_" :> "-118.2")
    @@ ("Confirmed" :> n + t) @@ ("Deaths" :> (n - 1) * t)

\* The raw key each source is reported under before and after the change of
\* columns (None: the source is not in the old reports).
Sources ==
    <<"LA", "Orange", "California", "Bavaria", "Berlin", "Germany", "France",
      "French Polynesia", "Hubei", "Italy", "Spain", "US", "Diamond",
      "Atlantis", "Lemuria">>

OldKey(src) ==
    CASE src = "LA" -> <<"US", "Los Angeles, CA">>
      [] src = "Orange" -> None
      [] src = "California" -> <<"US", "California">>
      [] src = "Bavaria" -> <<"Germany", "Bavaria">>
      [] src = "Berlin" -> <<"Germany", "Berlin">>
      [] src = "Germany" -> <<"Germany", "">>
      [] src = "France" -> <<"France", "">>
      [] src = "French Polynesia" -> <<"French Polynesia", "">>
      [] src = "Hubei" -> <<"Mainland China", "Hubei">>
      [] src = "Italy" -> <<"Italy", "">>
      [] src = "Spain" -> <<"Spain", "">>
      [] src = "US" -> <<"US", "US">>
      [] src = "Diamond" -> <<"Cruise Ship", "Diamond Princess">>
      [] src = "Atlantis" -> <<"Atlantis", "">>
      [] src = "Lemuria" -> <<"Lemuria", "">>

NewKey(src) ==
    CASE src = "LA" -> <<"US", "California", "Los Angeles">>
      [] src = "Orange" -> <<"US", "California", "Orange">>
      [] src = "California" -> <<"US", "California", "">>
      [] src = "Hubei" -> <<"China", "Hubei", "">>
      [] OTHER -> OldKey(src) \o <<"">>

RowsOf(src, n, t) ==
    IF n = 0 THEN <<>>
    ELSE IF t = 1
         THEN IF OldKey(src) = None THEN <<>>
              ELSE <<OldRow(OldKey(src)[1], OldKey(src)[2], n, t)>>
         ELSE <<NewRow(NewKey(src)[1], NewKey(src)[2], NewKey(src)[3], n, t)>>

\* The report of date t when each source reports at its level.
Report(level, t) ==
    Concat([i \in 1..Len(Sources) |-> RowsOf(Sources[i], level[Sources[i]], t)])

Feed(level) == [t \in Dates |-> Report(level, t)]

\* The levels: one group of sources varies, the others report at their usual
\* level (the places the dated fixes and the country roll-ups name are there).
UsualLevel ==
    [s \in Range(Sources) |->
        IF s \in {"Germany", "France", "French Polynesia", "Hubei", "Italy",
                  "Spain"}
        THEN 1 ELSE 0]

Groups ==
    {{"LA", "Orange", "California"}, {"Bavaria", "Berlin", "Germany"},
     {"France", "French Polynesia", "Hubei"}, {"US", "Diamond", "Atlantis"},
     {"Hubei", "Italy", "LA"}, {"Atlantis", "Lemuria"}}

LevelChoices ==
    UNION {{[s \in Range(Sources) |->
                IF s \in g THEN v[s] ELSE UsualLevel[s]] : v \in [g -> Levels]}
           : g \in Groups}

Feeds == {Feed(level) : level \in LevelChoices}

(***************************************************************************)
(* The two sheets, as csv_as_dicts gives them.  A population is the        *)
(* sequence of its characters.                                             *)
(***************************************************************************)
PopRow(country, province, pop) ==
    ("Country/Region" :> country) @@ ("Province/State" :> province)
    @@ ("Population" :> pop)

PopulationSheets ==
    {<< PopRow("Germany", "", <<"8", "3">>),
        PopRow("US", "California", <<"3", "9">>),
        PopRow("US", "Los Angeles, CA", <<"1", "0">>),
        PopRow("Cruise Ship", "Diamond Princess", <<"3">>),
        PopRow("France", "", <<"6", "7">>),
        PopRow("Narnia", "", <<"1", ",", "2", "3", "4">>) >>,
     << PopRow("Italy", "", <<"6", "0">>),
        PopRow("Mainland China", "Hubei", <<"5", "8">>),
        PopRow("China", "Hubei", <<"5", "9">>) >>,
     << >>}

\* The intervention sheet has the two naming columns and one column per date;
\* parse_date gives a date for the headers of the date columns only.
Headers ==
    <<"2020-01-22", "2020-01-23", "2020-01-24", "2020-01-25", "2020-01-26",
      "2020-01-27", "2020-01-28", "2020-01-29">>

DateHeaders == {Headers[t] : t \in Dates}

SheetHeaders == <<"Country/Region", "Province/State">> \o SubSeq(Headers, 1, NumDates)

ParseDate(s) ==
    IF s \in DateHeaders THEN Some(CHOOSE t \in Dates : Headers[t] = s) ELSE None

\* The cells of an intervention row: one per date column.
Cells(first, last) ==
    [t \in Dates |-> IF t = 1 THEN first ELSE IF t = NumDates THEN last ELSE ""]

IntRow(country, province, cells) ==
    ("Country/Region" :> country) @@ ("Province/State" :> province)
    @@ [s \in DateHeaders |-> cells[ParseDate(s)[1]]]

InterventionSheets ==
    {<< IntRow("Germany", "", Cells("Lockdown", "Reopened")),
        IntRow("US", "California", Cells("", "Lockdown")),
        IntRow("Narnia", "", Cells("", "")) >>,
     << IntRow("Germany", "", Cells("Lockdown", "Reopened")),
        IntRow("Cruise Ship", "Diamond Princess", Cells("Lockdown", "")) >>,
     << IntRow("Others", "", Cells("", "")) >>,
     << IntRow("France", "", Cells("Lockdown", "")),
        IntRow("France", "", Cells("", "Reopened")) >>}

(***************************************************************************)
(* fetch_population_data and fetch_intervention_data.                      *)
(***************************************************************************)
DigitValue(c) ==
    CASE c = "0" -> 0 [] c = "1" -> 1 [] c = "2" -> 2 [] c = "3" -> 3
      [] c = "4" -> 4 [] c = "5" -> 5 [] c = "6" -> 6 [] c = "7" -> 7
      [] c = "8" -> 8 [] c = "9" -> 9

RECURSIVE ParseInt(_)
ParseInt(cs) ==
    IF cs = <<>> THEN 0
    ELSE 10 * ParseInt(SubSeq(cs, 1, Len(cs) - 1)) + DigitValue(cs[Len(cs)])

\* int(row["Population"].replace(',', ''))
ParsePopulation(cs) == ParseInt(SelectSeq(cs, LAMBDA c : c # ","))

PopulationKey(row) == <<row["Country/Region"], row["Province/State"], "">>

\* The dict a sequence of (key, value) assignments leaves: the last one wins.
RECURSIVE DictOf(_)
DictOf(pairs) ==
    IF pairs = <<>> THEN [k \in {} |-> None]
    ELSE LET last == pairs[Len(pairs)]
         IN (last[1] :> last[2]) @@ DictOf(SubSeq(pairs, 1, Len(pairs) - 1))

\* A dict's keys in the order of their first assignment.
RECURSIVE KeyOrder(_)
KeyOrder(pairs) ==
    IF pairs = <<>> THEN <<>>
    ELSE LET init == KeyOrder(SubSeq(pairs, 1, Len(pairs) - 1))
             k == pairs[Len(pairs)][1]
         IN IF k \in Range(init) THEN init ELSE Append(init, k)

PopulationPairs(sheet) ==
    [i \in 1..Len(sheet) |->
        <<PopulationKey(sheet[i]), ParsePopulation(sheet[i]["Population"])>>]

fetch_population_data(sheet) == DictOf(PopulationPairs(sheet))

\* date_cols: the (date, header) pairs of the headers that parse, by date.
date_cols ==
    [t \in Dates |-> <<t, CHOOSE s \in Range(SheetHeaders) : ParseDate(s) = Some(t)>>]

\* The inner loop over date_cols, from column i on, with prev_state.
RECURSIVE InterventionListFrom(_, _, _)
InterventionListFrom(row, i, prev_state) ==
    IF i > Len(date_cols) THEN <<>>
    ELSE LET s == date_cols[i][2]
             cell == row[s]
         IN IF s = ""
            THEN <<prev_state>> \o InterventionListFrom(row, i + 1, prev_state)
            ELSE <<cell>> \o InterventionListFrom(row, i + 1, cell)

InterventionList(row) == InterventionListFrom(row, 1, "No Intervention")

InterventionKey(row) == <<row["Country/Region"], row["Province/State"], "">>

InterventionPairs(sheet) ==
    [i \in 1..Len(sheet) |-> <<InterventionKey(sheet[i]), InterventionList(sheet[i])>>]

\* The assert on a duplicate row.
DuplicateRow(sheet) ==
    \E i, j \in 1..Len(sheet) :
        i < j /\ InterventionKey(sheet[i]) = InterventionKey(sheet[j])

fetch_intervention_data(sheet) == DictOf(InterventionPairs(sheet))

Unknown == [t \in Dates |-> "Unknown"]

(***************************************************************************)
(* The state of the driver.                                                *)
(***************************************************************************)
VARIABLES
    pc,                           \* the stage the script is at
    raw_jhu_data,                 \* date -> the rows of that day's report
    population_sheet,             \* the rows of the population sheet
    interventions_sheet,          \* the rows of the intervention sheet
    population,                   \* place key -> population
    interventions,                \* place key -> intervention series
    places,                       \* place key -> Place
    interventions_recorded,
    populations_recorded,
    unknown_interventions_places,
    used_renames,                 \* recon.used_renames
    unrecognized_countries,       \* recon.unrecognized_countries
    date,                         \* the report the merge loop is in
    row,                          \* the next row of that report
    call,                         \* the next call of the consolidation stage
    out,                          \* what was printed, one entry per loop
    constructed                   \* the keys Place(dates) was constructed for

vars ==
    <<pc, raw_jhu_data, population_sheet, interventions_sheet, population,
      interventions, places, interventions_recorded, populations_recorded,
      unknown_interventions_places, used_renames, unrecognized_countries,
      date, row, call, out, constructed>>

inputs == <<raw_jhu_data, population_sheet, interventions_sheet>>

EmptyDict == [k \in {} |-> None]

Blank ==
    /\ population = EmptyDict
    /\ interventions = EmptyDict
    /\ places = EmptyDict
    /\ interventions_recorded = {}
    /\ populations_recorded = {}
    /\ unknown_interventions_places = {}
    /\ used_renames = {}
    /\ unrecognized_countries = {}
    /\ date = 1
    /\ row = 1
    /\ call = 1
    /\ out = <<>>
    /\ constructed = <<>>

Init ==
    /\ pc = "load"
    /\ raw_jhu_data \in Feeds
    /\ population_sheet \in PopulationSheets
    /\ interventions_sheet \in InterventionSheets
    /\ Blank

(***************************************************************************)
(* Load.                                                                   *)
(***************************************************************************)
\* fetch_raw_jhu_data: a report that cannot be fetched ends the script.
FetchFails ==
    /\ pc = "load"
    /\ pc' = "exit"
    /\ out' = Append(out, <<"Couldn't fetch", {}>>)
    /\ UNCHANGED <<inputs, population, interventions, places,
                   interventions_recorded, populations_recorded,
                   unknown_interventions_places, used_renames,
                   unrecognized_countries, date, row, call, constructed>>

Load ==
    /\ pc = "load"
    /\ IF DuplicateRow(interventions_sheet)
       THEN /\ pc' = "crashed"
            /\ out' = Append(out, <<"AssertionError", {}>>)
            /\ UNCHANGED <<population, interventions>>
       ELSE /\ pc' = "canonicalize_population"
            /\ interventions' = fetch_intervention_data(interventions_sheet)
            /\ population' = fetch_population_data(population_sheet)
            /\ out' = out
    /\ UNCHANGED <<inputs, places, interventions_recorded, populations_recorded,
                   unknown_interventions_places, used_renames,
                   unrecognized_countries, date, row, call, constructed>>

(***************************************************************************)
(* Canonicalize keys.                                                      *)
(***************************************************************************)
\* The loop that fills new_population.
NewPopulationPairs(pop, order) ==
    LET kept == SelectSeq(order, LAMBDA k : Canonicalize(k) # None)
    IN [i \in 1..Len(kept) |-> <<Canonicalize(kept[i]), pop[kept[i]]>>]

\* The comprehension that re-keys interventions.
NewInterventionPairs(int, order) ==
    [i \in 1..Len(order) |-> <<Canonicalize(order[i]), int[order[i]]>>]

CanonicalizePopulation ==
    /\ pc = "canonicalize_population"
    /\ LET order == KeyOrder(PopulationPairs(population_sheet))
       IN /\ population' = DictOf(NewPopulationPairs(population, order))
          /\ used_renames' = used_renames \cup UNION {UsedBy(k) : k \in Range(order)}
          /\ unrecognized_countries' =
                unrecognized_countries \cup UNION {UnrecognizedBy(k) : k \in Range(order)}
    /\ out' = Append(out, <<"pop", DOMAIN population'>>)
    /\ pc' = "canonicalize_interventions"
    /\ UNCHANGED <<inputs, interventions, places, interventions_recorded,
                   populations_recorded, unknown_interventions_places, date,
                   row, call, constructed>>

CanonicalizeInterventions ==
    /\ pc = "canonicalize_interventions"
    /\ LET order == KeyOrder(InterventionPairs(interventions_sheet))
       IN /\ interventions' = DictOf(NewInterventionPairs(interventions, order))
          /\ used_renames' = used_renames \cup UNION {UsedBy(k) : k \in Range(order)}
          /\ unrecognized_countries' =
                unrecognized_countries \cup UNION {UnrecognizedBy(k) : k \in Range(order)}
    /\ pc' = "merge"
    /\ UNCHANGED <<inputs, population, places, interventions_recorded,
                   populations_recorded, unknown_interventions_places, date,
                   row, call, out, constructed>>

(***************************************************************************)
(* Merge case data.                                                        *)
(***************************************************************************)
throw_away_places ==
    {<<"US", "US", "">>, <<"Australia", "", "">>, <<"Canada", "Recovered", "">>,
     <<"US", "Recovered", "">>}

RECURSIVE first_present(_, _)
first_present(d, ks) ==
    IF ks = <<>> THEN None
    ELSE IF Head(ks) \in DOMAIN d THEN Some(d[Head(ks)])
    ELSE first_present(d, Tail(ks))

\* The raw key of a keyed row; a missing or empty Admin2 is ''.
RawKey(keyed_row) ==
    LET country == first_present(keyed_row, <<"Country_Region", "Country/Region">>)
        province == first_present(keyed_row, <<"Province_State", "Province/State">>)
        admin2 == first_present(keyed_row, <<"Admin2">>)
        district == IF admin2 = None THEN "" ELSE admin2[1]
    IN <<country[1], province[1], district>>

\* A creation that leaves the interventions unset when the table has none.
CreatedPlaceNoSentinel(p, pop, int) ==
    [NewPlace EXCEPT
        !.key = Some(p),
        !.population = IF p \in DOMAIN pop THEN Some(pop[p]) ELSE None,
        !.interventions = IF p \in DOMAIN int THEN Some(int[p]) ELSE None]

\* The Place the merge loop creates for p on first sight.
CreatedPlace(p, pop, int) ==
    [NewPlace EXCEPT
        !.key = Some(p),
        !.population = IF p \in DOMAIN pop THEN Some(pop[p]) ELSE None,
        !.interventions = IF p \in DOMAIN int THEN Some(int[p]) ELSE Some(Unknown)]

\* The Place after one row for it on date d.
UpdatedPlace(place, keyed_row, d) ==
    LET latitude == first_present(keyed_row, <<"Lat", "Latitude">>)
        longitude == first_present(keyed_row, <<"Long_", "Longitude">>)
        located == latitude # None /\ longitude # None
    IN [place EXCEPT
           !.latitude = IF located THEN latitude ELSE @,
           !.longitude = IF located THEN longitude ELSE @,
           !.confirmed = Update(@, d, first_present(keyed_row, <<"Confirmed">>)),
           !.deaths = Update(@, d, first_present(keyed_row, <<"Deaths">>)),
           !.recovered = Update(@, d, first_present(keyed_row, <<"Recovered">>))]

MergeRow ==
    /\ pc = "merge"
    /\ row <= Len(raw_jhu_data[date])
    /\ row' = row + 1
    /\ LET keyed_row == raw_jhu_data[date][row]
           raw == RawKey(keyed_row)
           p == Canonicalize(raw)
       IN IF raw \in throw_away_places
          THEN UNCHANGED <<places, interventions_recorded, populations_recorded,
                           unknown_interventions_places, used_renames,
                           unrecognized_countries, constructed>>
          ELSE /\ used_renames' = used_renames \cup UsedBy(raw)
               /\ unrecognized_countries' = unrecognized_countries \cup UnrecognizedBy(raw)
               /\ IF p = None
                  THEN UNCHANGED <<places, interventions_recorded,
                                   populations_recorded,
                                   unknown_interventions_places, constructed>>
                  ELSE LET fresh == p \notin DOMAIN places
                           place == IF fresh
                                    THEN CreatedPlace(p, population, interventions)
                                    ELSE places[p]
                       IN /\ places' = (p :> UpdatedPlace(place, keyed_row, date)) @@ places
                          /\ constructed' = IF fresh THEN Append(constructed, p)
                                            ELSE constructed
                          /\ populations_recorded' =
                                IF fresh /\ p \in DOMAIN population
                                THEN populations_recorded \cup {p}
                                ELSE populations_recorded
                          /\ interventions_recorded' =
                                IF fresh /\ p \in DOMAIN interventions
                                THEN interventions_recorded \cup {p}
                                ELSE interventions_recorded
                          /\ unknown_interventions_places' =
                                IF fresh /\ p \notin DOMAIN interventions
                                THEN unknown_interventions_places \cup {p}
                                ELSE unknown_interventions_places
    /\ UNCHANGED <<pc, inputs, population, interventions, date, call, out>>

\* The end of a day's report: the next day's, or the end of the merge.
EndOfReport ==
    /\ pc = "merge"
    /\ row > Len(raw_jhu_data[date])
    /\ IF date < NumDates
       THEN date' = date + 1 /\ row' = 1 /\ pc' = pc
       ELSE date' = date /\ row' = row /\ pc' = "collisions"
    /\ UNCHANGED <<inputs, population, interventions, places,
                   interventions_recorded, populations_recorded,
                   unknown_interventions_places, used_renames,
                   unrecognized_countries, call, out, constructed>>

(***************************************************************************)
(* The sanity checks after the merge.                                      *)
(***************************************************************************)
\* country_converter's iso3 code of a name; a name it does not know is
\* 'not found'.
IsoCode(c) ==
    CASE c = "China" -> "CHN"
      [] c = "France" -> "FRA"
      [] c = "French Polynesia" -> "PYF"
      [] c = "Germany" -> "DEU"
      [] c = "Italy" -> "ITA"
      [] c = "Spain" -> "ESP"
      [] c = "United States" -> "USA"
      [] OTHER -> "not found"

Countries(pl) == SelectSeq(CountryOrder, LAMBDA c : \E k \in DOMAIN pl : pl[k].key[1][1] = c)

CollisionsOf(countries) ==
    {<<countries[ij[1]], countries[ij[2]]>> :
        ij \in {ij \in (1..Len(countries)) \X (1..Len(countries)) :
                  /\ ij[1] < ij[2]
                  /\ IsoCode(countries[ij[1]]) = IsoCode(countries[ij[2]])}}

Diagnostic(stage, next, label, payload) ==
    /\ pc = stage
    /\ pc' = next
    /\ out' = Append(out, <<label, payload>>)
    /\ UNCHANGED <<inputs, population, interventions, places,
                   interventions_recorded, populations_recorded,
                   unknown_interventions_places, used_renames,
                   unrecognized_countries, date, row, call, constructed>>

CountryCollisions ==
    Diagnostic("collisions", "unrecognized", "Country collision",
               CollisionsOf(Countries(places)))

UnrecognizedCountries ==
    Diagnostic("unrecognized", "unused_renames", "Unrecognized country",
               unrecognized_countries)

\* The missing-data warnings right after the sanity checks.
UnusedRenamesThenWarnings ==
    Diagnostic("unused_renames", "no_population", "Unused rename",
               DOMAIN place_renames \ used_renames)

UnusedRenames ==
    Diagnostic("unused_renames", "consolidate_province", "Unused rename",
               DOMAIN place_renames \ used_renames)

(***************************************************************************)
(* Hierarchical consolidation.                                             *)
(***************************************************************************)
ProvinceLevelCountries == <<"United States", "Canada">>

CountryLevelCountries == <<"Germany", "Italy", "Spain">>

Without(pl, p) == [k \in DOMAIN pl \ {p} |-> pl[k]]

\* A consolidation that forgets the recovered series.
AbsorbTwoSeries(parent, child) ==
    [parent EXCEPT
        !.confirmed = SeriesAdd(@, child.confirmed),
        !.deaths = SeriesAdd(@, child.deaths)]

\* The three += of a consolidation: the child's series into the parent's.
Absorb(parent, child) ==
    [parent EXCEPT
        !.confirmed = SeriesAdd(@, child.confirmed),
        !.deaths = SeriesAdd(@, child.deaths),
        !.recovered = SeriesAdd(@, child.recovered)]

\* One turn of consolidate_to_province_level's loop, for the key p.
ProvinceLevelStep(pl, pop, country, p) ==
    IF p[1] = country /\ p[3] # ""
    THEN LET state == <<p[1], p[2], "">>
             made ==
                 IF state \in DOMAIN pl THEN pl
                 ELSE LET withState ==
                              (state :> [NewPlace EXCEPT !.key = Some(state)]) @@ pl
                          withPop ==
                              IF p \in DOMAIN pop
                              THEN [withState EXCEPT ![p].population = Some(pop[p])]
                              ELSE withState
                      IN [withPop EXCEPT ![state].interventions = Some(Unknown)]
         IN Without([made EXCEPT ![state] = Absorb(@, made[p])], p)
    ELSE pl

RECURSIVE ProvinceLevelFrom(_, _, _, _, _)
ProvinceLevelFrom(pl, pop, country, keys, i) ==
    IF i > Len(keys) THEN pl
    ELSE ProvinceLevelFrom(ProvinceLevelStep(pl, pop, country, keys[i]),
                           pop, country, keys, i + 1)

consolidate_to_province_level(pl, pop, country) ==
    ProvinceLevelFrom(pl, pop, country, Sorted(DOMAIN pl), 1)

ConsolidateToProvinceLevel ==
    /\ pc = "consolidate_province"
    /\ places' = consolidate_to_province_level(
                     places, population, ProvinceLevelCountries[call])
    /\ constructed' = constructed \o Sorted(DOMAIN places' \ DOMAIN places)
    /\ IF call < Len(ProvinceLevelCountries)
       THEN call' = call + 1 /\ pc' = pc
       ELSE call' = 1 /\ pc' = "consolidate_country"
    /\ UNCHANGED <<inputs, population, interventions, interventions_recorded,
                   populations_recorded, unknown_interventions_places,
                   used_renames, unrecognized_countries, date, row, out>>

\* One turn of consolidate_to_country_level's loop, for the key p.
CountryLevelStep(pl, country, p) ==
    IF p[1] = country /\ p[2] # ""
    THEN LET target == <<country, "", "">>
         IN Without([pl EXCEPT ![target] = Absorb(@, pl[p])], p)
    ELSE pl

RECURSIVE CountryLevelFrom(_, _, _, _)
CountryLevelFrom(pl, country, keys, i) ==
    IF i > Len(keys) THEN pl
    ELSE CountryLevelFrom(CountryLevelStep(pl, country, keys[i]), country, keys, i + 1)

consolidate_to_country_level(pl, country) ==
    CountryLevelFrom(pl, country, Sorted(DOMAIN pl), 1)

\* places[key] raises KeyError for a key the map does not hold.
KeyError(pl, keys) == \E k \in keys : k \notin DOMAIN pl

Crash(exception) ==
    /\ pc' = "crashed"
    /\ out' = Append(out, <<exception, {}>>)

ConsolidateToCountryLevel ==
    /\ pc = "consolidate_country"
    /\ LET country == CountryLevelCountries[call]
       IN IF KeyError(places, {<<country, "", "">>})
          THEN Crash("KeyError") /\ UNCHANGED <<places, call>>
          ELSE /\ places' = consolidate_to_country_level(places, country)
               /\ out' = out
               /\ IF call < Len(CountryLevelCountries)
                  THEN call' = call + 1 /\ pc' = pc
                  ELSE call' = 1 /\ pc' = "correct_misrecorded"
    /\ UNCHANGED <<inputs, population, interventions, interventions_recorded,
                   populations_recorded, unknown_interventions_places,
                   used_renames, unrecognized_countries, date, row, constructed>>

(***************************************************************************)
(* Point anomaly correction.                                               *)
(***************************************************************************)
\* The assignments in the other order: the recorded place is patched before
\* its value is copied.
MisrecordedPatchedFirst(correct, recorded, d) ==
    LET recorded1 == [recorded EXCEPT ![d] = recorded[d - 1]]
        correct1 == [correct EXCEPT ![d] = recorded1[d]]
    IN <<correct1, recorded1>>

\* The six assignments of correct_misrecorded_place on one series each of the
\* two places: <<correct's series, recorded's series>> after them.
Misrecorded(correct, recorded, d) ==
    LET correct1 == [correct EXCEPT ![d] = recorded[d]]
        recorded1 == [recorded EXCEPT ![d] = recorded[d - 1]]
    IN <<correct1, recorded1>>

correct_misrecorded_place(pl, d, correct_p, recorded_p) ==
    LET c == Misrecorded(pl[correct_p].confirmed, pl[recorded_p].confirmed, d)
        x == Misrecorded(pl[correct_p].deaths, pl[recorded_p].deaths, d)
        r == Misrecorded(pl[correct_p].recovered, pl[recorded_p].recovered, d)
    IN [pl EXCEPT
           ![correct_p] = [@ EXCEPT !.confirmed = c[1], !.deaths = x[1],
                                    !.recovered = r[1]],
           ![recorded_p] = [@ EXCEPT !.confirmed = c[2], !.deaths = x[2],
                                     !.recovered = r[2]]]

France == <<"France", "", "">>

FrenchPolynesia == <<"French Polynesia", "", "">>

Hubei == <<"China", "Hubei", "">>

CorrectMisrecordedPlace ==
    /\ pc = "correct_misrecorded"
    /\ IF KeyError(places, {France, FrenchPolynesia})
       THEN Crash("KeyError") /\ UNCHANGED places
       ELSE IF ~InRange(MisrecordedDate) \/ ~InRange(MisrecordedDate - 1)
       THEN Crash("IndexError") /\ UNCHANGED places
       ELSE /\ places' = correct_misrecorded_place(
                             places, MisrecordedDate, France, FrenchPolynesia)
            /\ pc' = "correct_late_reporting"
            /\ out' = out
    /\ UNCHANGED <<inputs, population, interventions, interventions_recorded,
                   populations_recorded, unknown_interventions_places,
                   used_renames, unrecognized_countries, date, row, call,
                   constructed>>

(***************************************************************************)
(* The arithmetic of correct_late_reporting is numpy's: the quotient of    *)
(* the two counts and each product are IEEE 754 doubles, rounded to 53     *)
(* significant bits, ties to even.  A number is its integer part and the   *)
(* bits of its fraction.                                                   *)
(***************************************************************************)
MantissaBits == 53

RECURSIVE BitLength(_)
BitLength(n) == IF n = 0 THEN 0 ELSE 1 + BitLength(n \div 2)

\* The zero bits a sequence of bits starts with.
LeadingZeros(bits) ==
    IF \A i \in 1..Len(bits) : bits[i] = 0 THEN Len(bits)
    ELSE (CHOOSE i \in 1..Len(bits) :
             bits[i] = 1 /\ \A j \in 1..(i - 1) : bits[j] = 0) - 1

Significant(x) ==
    IF x.int > 0 THEN BitLength(x.int) + Len(x.frac)
    ELSE Len(x.frac) - LeadingZeros(x.frac)

\* x + 2^-Len(x.frac): a bit flips when all the bits after it are 1, and the
\* carry reaches the integer part when all the bits are 1.
Increment(x) ==
    LET n == Len(x.frac)
        carried(i) == \A j \in (i + 1)..n : x.frac[j] = 1
    IN [int |-> IF carried(0) THEN x.int + 1 ELSE x.int,
        frac |-> [i \in 1..n |-> IF carried(i) THEN 1 - x.frac[i] ELSE x.frac[i]]]

\* x rounded to its first keep fraction bits, to nearest, ties to even.
RoundAt(x, keep) ==
    LET n == Len(x.frac)
        kept == [int |-> x.int, frac |-> SubSeq(x.frac, 1, keep)]
        guard == x.frac[keep + 1]
        sticky == \E i \in (keep + 2)..n : x.frac[i] = 1
        odd == IF keep > 0 THEN x.frac[keep] = 1 ELSE x.int % 2 = 1
    IN IF guard = 1 /\ (sticky \/ odd) THEN Increment(kept) ELSE kept

\* x as a double.
Round53(x) ==
    IF Significant(x) <= MantissaBits THEN x
    ELSE RoundAt(x, Len(x.frac) - (Significant(x) - MantissaBits))

\* Long division: the first n bits of the fraction r / b (r < b) and what is
\* left after them, the first half of the bits and then the second (what is
\* left is below b: the test on it only has the first half done first).
RECURSIVE DivBits(_, _, _)
DivBits(r, b, n) ==
    IF n = 0 THEN [frac |-> <<>>, rest |-> r]
    ELSE IF n = 1
    THEN IF 2 * r >= b THEN [frac |-> <<1>>, rest |-> 2 * r - b]
         ELSE [frac |-> <<0>>, rest |-> 2 * r]
    ELSE LET first == DivBits(r, b, n \div 2)
         IN IF first.rest >= b THEN first
            ELSE LET second == DivBits(first.rest, b, n - n \div 2)
                 IN [frac |-> first.frac \o second.frac, rest |-> second.rest]

\* The zero bits the fraction r / b (0 < r < b) starts with.
RECURSIVE FractionZeros(_, _)
FractionZeros(r, b) == IF 2 * r >= b THEN 0 ELSE 1 + FractionZeros(2 * r, b)

\* a / b as a double (a >= 0, b > 0): the quotient to one bit more than the
\* mantissa holds, a last bit for what is left, rounded.
FloatDiv(a, b) ==
    LET q == a \div b
        r == a % b
        n == IF q > 0 THEN MantissaBits - BitLength(q) + 1
             ELSE IF r = 0 THEN 0
             ELSE MantissaBits + FractionZeros(r, b) + 1
        bits == DivBits(r, b, n)
    IN Round53([int |-> q,
                frac |-> Append(bits.frac, IF bits.rest = 0 THEN 0 ELSE 1)])

\* Long multiplication: m * 0.bits plus a carry into the last bit, the second
\* half of the bits and then the first; the bits of the fraction and the carry
\* into the integer part (a carry is at most m: the test on it only has the
\* second half done first).
RECURSIVE MulBits(_, _, _)
MulBits(m, bits, carry) ==
    IF bits = <<>> THEN [carry |-> carry, frac |-> <<>>]
    ELSE IF Len(bits) = 1
    THEN [carry |-> (m * bits[1] + carry) \div 2,
          frac |-> <<(m * bits[1] + carry) % 2>>]
    ELSE LET h == Len(bits) \div 2
             second == MulBits(m, SubSeq(bits, h + 1, Len(bits)), carry)
         IN IF second.carry > m THEN second
            ELSE LET first == MulBits(m, SubSeq(bits, 1, h), second.carry)
                 IN [carry |-> first.carry, frac |-> first.frac \o second.frac]

\* m * x as a double, for an integer m >= 0.
FloatMul(m, x) ==
    LET p == MulBits(m, x.frac, 0)
    IN Round53([int |-> m * x.int + p.carry, frac |-> p.frac])

\* astype(int) of a double that is not negative: toward zero.
AsInt(x) == x.int

\* One cell of new_deaths.astype(int), for a scaling factor a / b with b # 0.
Rescaled(old, a, b) == AsInt(FloatMul(old, FloatDiv(a, b)))

\* With b = 0 the factor is inf or nan and so is every product; what astype(int)
\* makes of them is the platform's choice.
IntMin == -2147483647 - 1

IntMax == 2147483647

Platforms == {"x86", "arm"}

NonFiniteAsInt(old, a, platform) ==
    IF platform = "x86" THEN IntMin
    ELSE IF a = 0 \/ old = 0 THEN 0 ELSE IntMax

\* The deaths series after correct_late_reporting(p, d).
correct_late_reporting(deaths, d, platform) ==
    LET a == deaths[d]
        b == deaths[d - 1]
    IN [t \in Dates |->
           IF t >= d THEN deaths[t]
           ELSE IF b = 0 THEN NonFiniteAsInt(deaths[t], a, platform)
           ELSE Rescaled(deaths[t], a, b)]

CorrectLateReporting ==
    /\ pc = "correct_late_reporting"
    /\ IF KeyError(places, {Hubei})
       THEN Crash("KeyError") /\ UNCHANGED places
       ELSE IF ~InRange(LateReportingDate) \/ ~InRange(LateReportingDate - 1)
       THEN Crash("IndexError") /\ UNCHANGED places
       ELSE /\ \E platform \in Platforms :
                 places' = [places EXCEPT ![Hubei].deaths =
                     correct_late_reporting(@, LateReportingDate, platform)]
            /\ pc' = "no_population"
            /\ out' = out
    /\ UNCHANGED <<inputs, population, interventions, interventions_recorded,
                   populations_recorded, unknown_interventions_places,
                   used_renames, unrecognized_countries, date, row, call,
                   constructed>>

(***************************************************************************)
(* Warnings for catching missing data, and the output.                     *)
(***************************************************************************)
\* The places the "No Population Data" loop prints.
NoPopulationData(pl) == {k \in DOMAIN pl : ~(pl[k].population = None)}

\* The places the "No Intervention Data" loop prints.
NoInterventionData(pl) == {k \in DOMAIN pl : pl[k].interventions = None}

WarnNoPopulation ==
    Diagnostic("no_population", "no_intervention", "No Population Data",
               NoPopulationData(places))

WarnNoIntervention ==
    Diagnostic("no_intervention", "lost_intervention", "No Intervention Data",
               NoInterventionData(places))

LostInterventionData ==
    IF SortFails(DOMAIN interventions)
    THEN /\ pc = "lost_intervention"
         /\ Crash("TypeError")
         /\ UNCHANGED <<inputs, population, interventions, places,
                        interventions_recorded, populations_recorded,
                        unknown_interventions_places, used_renames,
                        unrecognized_countries, date, row, call, constructed>>
    ELSE Diagnostic("lost_intervention", "lost_population",
                    "Lost intervention data",
                    DOMAIN interventions \ interventions_recorded)

LostPopulationData ==
    IF SortFails(DOMAIN population)
    THEN /\ pc = "lost_population"
         /\ Crash("TypeError")
         /\ UNCHANGED <<inputs, population, interventions, places,
                        interventions_recorded, populations_recorded,
                        unknown_interventions_places, used_renames,
                        unrecognized_countries, date, row, call, constructed>>
    ELSE Diagnostic("lost_population", "persist", "Lost population data",
                    DOMAIN population \ populations_recorded)

\* The rows of each of the three csv files.
CsvRows(pl) == {k \in DOMAIN pl : k[3] = "" /\ SumSeq(pl[k].confirmed) # 0}

Persist ==
    /\ pc = "persist"
    /\ pc' = "done"
    /\ \E output_csvs \in BOOLEAN :
          out' = out \o << <<"places.pkl", DOMAIN places>> >>
                     \o (IF output_csvs THEN << <<"csv", CsvRows(places)>> >>
                         ELSE <<>>)
    /\ UNCHANGED <<inputs, population, interventions, places,
                   interventions_recorded, populations_recorded,
                   unknown_interventions_places, used_renames,
                   unrecognized_countries, date, row, call, constructed>>

Next ==
    \/ FetchFails
    \/ Load
    \/ CanonicalizePopulation
    \/ CanonicalizeInterventions
    \/ MergeRow
    \/ EndOfReport
    \/ CountryCollisions
    \/ UnrecognizedCountries
    \/ UnusedRenames
    \/ ConsolidateToProvinceLevel
    \/ ConsolidateToCountryLevel
    \/ CorrectMisrecordedPlace
    \/ CorrectLateReporting
    \/ WarnNoPopulation
    \/ WarnNoIntervention
    \/ LostInterventionData
    \/ LostPopulationData
    \/ Persist

Spec == Init /\ [][Next]_vars

(***************************************************************************)
(* The properties.                                                         *)
(***************************************************************************)
Metrics == {"confirmed", "deaths", "recovered"}

Labels == {out[i][1] : i \in 1..Len(out)}

Payload(label) == UNION {out[i][2] : i \in {j \in 1..Len(out) : out[j][1] = label}}

\* The keys of the Place map as the merge stage left it: each was put in one
\* of the two intervention sets when it was created.
MergedKeys == interventions_recorded \cup unknown_interventions_places

California == <<"United States", "California", "">>

LosAngeles == <<"United States", "California", "Los Angeles">>

Orange == <<"United States", "California", "Orange">>

DistrictsOf(pl, country) == {p \in DOMAIN pl : p[1] = country /\ p[3] # ""}

\* The element-wise sum of one metric over the places ks of pl.
Total(pl, ks, metric) ==
    LET seq == Sorted(ks)
    IN [d \in Dates |-> SumSeq([i \in 1..Len(seq) |-> pl[seq[i]][metric][d]])]

\* C1: a call of consolidate_to_province_level leaves no district-level place
\* of its country, and leaves every state-level place of the country with each
\* series equal to its series before the call (zeros if it did not exist) plus
\* the element-wise sum of the series of its district-level places.
C1_SumPreserving ==
    [][pc = "consolidate_province" =>
        LET country == ProvinceLevelCountries[call]
            districts == DistrictsOf(places, country)
            states == {<<p[1], p[2], "">> : p \in districts}
                      \cup {k \in DOMAIN places : k[1] = country /\ k[3] = ""}
        IN /\ DistrictsOf(places', country) = {}
           /\ \A s \in states :
                 /\ s \in DOMAIN places'
                 /\ \A m \in Metrics :
                       places'[s][m] =
                           SeriesAdd(IF s \in DOMAIN places THEN places[s][m] ELSE Zeros,
                                     Total(places, {p \in districts : p[2] = s[2]}, m))
    ]_vars

\* The United States call is over: California was there before it, with
\* deaths, and Los Angeles and Orange were folded into it.
C1_Witness ==
    /\ pc = "consolidate_province" /\ call = 2
    /\ {LosAngeles, Orange} \subseteq MergedKeys
    /\ California \in MergedKeys
    /\ DOMAIN places \cap {LosAngeles, Orange, California} = {California}
    /\ places[California].deaths[NumDates] > 0
    /\ places[California].recovered[1] > 0

\* C4: correct_misrecorded_place(d, correct_p, recorded_p) leaves, in each of
\* the three series, the recorded place's value at d equal to its own value at
\* d - 1, and the correct place's value at d equal to the value the recorded
\* place held at d before the call.
C4_MisattributionFix ==
    [][pc = "correct_misrecorded" /\ pc' = "correct_late_reporting" =>
        \A m \in Metrics :
            /\ places'[FrenchPolynesia][m][MisrecordedDate]
                  = places[FrenchPolynesia][m][MisrecordedDate - 1]
            /\ places'[France][m][MisrecordedDate]
                  = places[FrenchPolynesia][m][MisrecordedDate]
    ]_vars

\* The fix has run on two places that reported different counts, and the
\* value moved to France is not the one left in French Polynesia.
C4_Witness ==
    /\ pc = "correct_late_reporting"
    /\ places[France].confirmed[MisrecordedDate]
          # places[FrenchPolynesia].confirmed[MisrecordedDate]
    /\ places[France].confirmed[1] # places[FrenchPolynesia].confirmed[1]
    /\ places[FrenchPolynesia].recovered[MisrecordedDate] > 0

\* The rows the merge loop is through with.
Processed(t, i) == pc # "merge" \/ t < date \/ (t = date /\ i < row)

MergeStages == {"merge", "collisions", "unrecognized", "unused_renames"}

\* C8: through the merge stage every key p of the Place map is the non-null
\* canonical key of a processed row that is not thrown away, and its Place was
\* constructed once; its interventions are the table's series, with p in
\* interventions_recorded, when the table has p, and the 'Unknown' series, with
\* p in unknown_interventions_places, when not (the two sets are disjoint and
\* together are the keys of the map); its population is population[p], with p
\* in populations_recorded, when the population table has p, and unset when not.
C8_LazyCreation ==
    pc \in MergeStages =>
        /\ \A p \in DOMAIN places :
              /\ p # None
              /\ \E t \in Dates : \E i \in 1..Len(raw_jhu_data[t]) :
                    /\ Processed(t, i)
                    /\ RawKey(raw_jhu_data[t][i]) \notin throw_away_places
                    /\ Canonicalize(RawKey(raw_jhu_data[t][i])) = p
              /\ Cardinality({i \in 1..Len(constructed) : constructed[i] = p}) = 1
              /\ places[p].key = Some(p)
              /\ places[p].interventions # None
              /\ IF p \in DOMAIN interventions
                 THEN /\ places[p].interventions = Some(interventions[p])
                      /\ p \in interventions_recorded
                 ELSE /\ places[p].interventions = Some(Unknown)
                      /\ p \in unknown_interventions_places
              /\ IF p \in DOMAIN population
                 THEN /\ places[p].population = Some(population[p])
                      /\ p \in populations_recorded
                 ELSE /\ places[p].population = None
                      /\ p \notin populations_recorded
        /\ interventions_recorded \cap unknown_interventions_places = {}
        /\ interventions_recorded \cup unknown_interventions_places = DOMAIN places
        /\ populations_recorded \subseteq DOMAIN places
        /\ Range(constructed) = DOMAIN places

\* The merge loop is in the last report, and has created a place with a
\* population, one with the table's interventions and one with neither.
C8_Witness ==
    /\ pc = "merge" /\ date = NumDates /\ row > 1
    /\ populations_recorded # {}
    /\ interventions_recorded # {}
    /\ \E p \in unknown_interventions_places : places[p].population = None

EarlyLabels == {"Country collision", "Unrecognized country", "Unused rename"}

LateLabels ==
    {"No Population Data", "No Intervention Data", "Lost intervention data",
     "Lost population data"}

ConsolidationStages == {"consolidate_province", "consolidate_country"}

LaterStages ==
    {"correct_misrecorded", "correct_late_reporting", "no_population",
     "no_intervention", "lost_intervention", "lost_population", "persist",
     "done"}

\* No district-level place in a country rolled up to its states, no
\* province-level place in a country rolled up whole.
Consolidated(pl) ==
    \A k \in DOMAIN pl :
        /\ k[1] \in Range(ProvinceLevelCountries) => k[3] = ""
        /\ k[1] \in Range(CountryLevelCountries) => k[2] = ""

MergedCountries == SelectSeq(CountryOrder, LAMBDA c : \E k \in MergedKeys : k[1] = c)

\* C9, as the spec has it: every coverage diagnostic is out before the
\* consolidation stage touches the Place map.
C9_AllDiagnosticsBeforeConsolidation ==
    pc \in ConsolidationStages \cup LaterStages =>
        EarlyLabels \cup LateLabels \subseteq Labels

\* C9, amended: the collision, unrecognized-country and unused-rename
\* diagnostics are out before the consolidation stage runs, and the collisions
\* are those of the Place map the merge left; the four missing-data diagnostics
\* come out only after consolidation and the two fixes, when no place is left
\* to roll up, and name only places of that final map.
C9_StageOrder ==
    /\ pc \in ConsolidationStages \cup LaterStages =>
          /\ EarlyLabels \subseteq Labels
          /\ Payload("Country collision") = CollisionsOf(MergedCountries)
    /\ pc \in MergeStages \cup ConsolidationStages
              \cup {"correct_misrecorded", "correct_late_reporting"} =>
          Labels \cap LateLabels = {}
    /\ Labels \cap LateLabels # {} =>
          /\ Consolidated(places)
          /\ Payload("No Population Data") \subseteq DOMAIN places
          /\ Payload("No Intervention Data") \subseteq DOMAIN places

\* The script is through: consolidation removed places the merge had made, one
\* of them with a population, and the population warning names a place.
C9_Witness ==
    /\ pc = "done"
    /\ LateLabels \subseteq Labels
    /\ \E k \in populations_recorded : k \notin DOMAIN places
    /\ Payload("No Population Data") # {}

\* C2: when consolidate_to_country_level is called for a country that has
\* province-level places and no country-level place, the script goes on, and
\* the country is left with the one place (country, '', ''), whose series are
\* the element-wise sums of the provinces' series.
C2_ProvinceOnlyRollup ==
    [][LET country == CountryLevelCountries[call]
           target == <<country, "", "">>
           provinces == {k \in DOMAIN places : k[1] = country /\ k[2] # ""}
       IN pc = "consolidate_country" /\ target \notin DOMAIN places
             /\ provinces # {} =>
               /\ pc' # "crashed"
               /\ {k \in DOMAIN places' : k[1] = country} = {target}
               /\ \A m \in Metrics :
                     places'[target][m] = Total(places, provinces, m)
    ]_vars

\* The cells of a sheet row, by date.
CellsOf(sheet_row) == [t \in Dates |-> sheet_row[Headers[t]]]

\* Each cell's own value, or that of the nearest earlier non-empty cell, or
\* 'No Intervention'.
CarriedForward(cells) ==
    [t \in Dates |->
        LET earlier == {u \in 1..t : cells[u] # ""}
        IN IF earlier = {} THEN "No Intervention"
           ELSE cells[CHOOSE u \in earlier : \A v \in earlier : v <= u]]

\* C3: the series fetch_intervention_data makes of a row has, at each date, the
\* cell's value when the cell is not empty and otherwise the value of the
\* nearest earlier non-empty cell of the row, or 'No Intervention' when there
\* is none; no series holds an empty string.
C3_CarryForward ==
    pc = "canonicalize_population" =>
        \A i \in 1..Len(interventions_sheet) :
            LET series == interventions[InterventionKey(interventions_sheet[i])]
            IN /\ \A t \in Dates :
                     series[t] = CarriedForward(CellsOf(interventions_sheet[i]))[t]
               /\ \A t \in Dates : series[t] # ""

\* C6: the 'No Population Data' warning names a place of the final Place map
\* if and only if the place's population is unset.
C6_MissingPopulationWarning ==
    "No Population Data" \in Labels =>
        Payload("No Population Data")
            = {k \in DOMAIN places : places[k].population = None}

AfterCanonicalization ==
    pc \notin {"load", "exit", "canonicalize_population",
               "canonicalize_interventions"}

\* C7: after the canonicalize-keys stage neither the population map nor the
\* interventions map has a null key, every key of either is the canonical key
\* of a raw key of its sheet, and the sorted passes over the keys of the two
\* maps do not fail.
C7_NullKeysDropped ==
    AfterCanonicalization =>
        /\ None \notin DOMAIN population
        /\ None \notin DOMAIN interventions
        /\ \A k \in DOMAIN population :
              \E i \in 1..Len(population_sheet) :
                  Canonicalize(PopulationKey(population_sheet[i])) = k
        /\ \A k \in DOMAIN interventions :
              \E i \in 1..Len(interventions_sheet) :
                  Canonicalize(InterventionKey(interventions_sheet[i])) = k
        /\ "TypeError" \notin Labels

\* C10: a state-level place that consolidate_to_province_level creates has the
\* 'Unknown' interventions and the population known for the district-level
\* key that made it (unset if none is known); a state-level place that was
\* there before the call keeps its population and its interventions.
C10_StateCreatedOnDemand ==
    [][pc = "consolidate_province" =>
        \A s \in DOMAIN places' :
            IF s \in DOMAIN places
            THEN /\ places'[s].population = places[s].population
                 /\ places'[s].interventions = places[s].interventions
            ELSE LET districts == {p \in DistrictsOf(places, s[1]) : p[2] = s[2]}
                     creator == Sorted(districts)[1]
                 IN /\ places'[s].interventions = Some(Unknown)
                    /\ places'[s].population =
                          IF creator \in DOMAIN population
                          THEN Some(population[creator]) ELSE None
    ]_vars

(***************************************************************************)
(* The late-reporting fix on its own: the usual feed, with every series of *)
(* deaths of Hubei up to MaxDeaths.                                        *)
(***************************************************************************)
WithDeaths(feed, p, deaths) ==
    [t \in Dates |->
        [i \in 1..Len(feed[t]) |->
            IF Canonicalize(RawKey(feed[t][i])) = p
            THEN [feed[t][i] EXCEPT !["Deaths"] = deaths[t]]
            ELSE feed[t][i]]]

\* The series of deaths: any up to the date of the fix, level after it.
DeathsSeries ==
    {[t \in Dates |->
         IF t <= LateReportingDate THEN v[t] ELSE v[LateReportingDate]]
     : v \in [1..LateReportingDate -> 0..MaxDeaths]}

InitLateReporting ==
    /\ pc = "load"
    /\ \E deaths \in DeathsSeries :
          raw_jhu_data = WithDeaths(Feed(UsualLevel), Hubei, deaths)
    /\ population_sheet = << PopRow("China", "Hubei", <<"5", "9">>) >>
    /\ interventions_sheet = << IntRow("China", "Hubei", Cells("Lockdown", "")) >>
    /\ Blank

SpecLateReporting == InitLateReporting /\ [][Next]_vars

\* C5: correct_late_reporting(p, d), when the deaths on d - 1 are not zero,
\* leaves the deaths on every date from d on as they were, and makes the deaths
\* on every date before d the old value times deaths[d] / deaths[d - 1],
\* truncated toward zero.
C5_RetroactiveRescaling ==
    [][pc = "correct_late_reporting" /\ pc' = "no_population"
          /\ places[Hubei].deaths[LateReportingDate - 1] # 0 =>
        LET old == places[Hubei].deaths
            a == old[LateReportingDate]
            b == old[LateReportingDate - 1]
        IN \A t \in Dates :
               places'[Hubei].deaths[t] =
                   IF t >= LateReportingDate THEN old[t] ELSE (old[t] * a) \div b
    ]_vars

====
